---- MODULE Spec2Model ----
(***************************************************************************)
(* A model of the jira-query-mcp server (src/index.js): the startup code   *)
(* that builds the proxy agent and the configuration, the list-tools       *)
(* handler, and the call-tool handler with its two suspension points       *)
(* (await fetch, await response.json()).                                   *)
(*                                                                         *)
(* JavaScript values are tagged records; strings are TLA+ strings, read    *)
(* character by character with SubSeq.                                     *)
(***************************************************************************)
EXTENDS Integers, Sequences, FiniteSets, TLC

VARIABLES
    env,         \* process.env, as far as index.js reads it
    phase,       \* "boot" (module not yet evaluated) | "ready" | "crashed"
    bootError,   \* message of the error that ended startup, "" if none
    proxyAgent,  \* const proxyAgent (index.js:36)
    JIRA_CONFIG, \* const JIRA_CONFIG (index.js:39-43)
    inbox,       \* call-tool requests the host has written, not yet dispatched
    calls,       \* id -> the invocation of the handler for that request
    wire,        \* outbound HTTP requests, in the order fetch() was called
    outbox       \* <<id, envelope>> in the order the handler returned them

vars == <<env, phase, bootError, proxyAgent, JIRA_CONFIG, inbox, calls, wire, outbox>>

(***************************************************************************)
(* Bounds of the model.                                                    *)
(***************************************************************************)
MaxCalls == 2
MaxLen == 2

(***************************************************************************)
(* JavaScript values.                                                      *)
(***************************************************************************)
Undef == [t |-> "undefined"]
Null == [t |-> "null"]
Str(s) == [t |-> "string", v |-> s]
Num(n) == [t |-> "number", v |-> n]
Arr(items) == [t |-> "array", v |-> items]
\* An object read by key: a function from its own keys to values.
Obj(f) == [t |-> "object", v |-> f]
\* An object literal, whose keys keep their order: a sequence of <<key, value>>.
Lit(props) == [t |-> "literal", v |-> props]

Nullish(x) == x.t \in {"undefined", "null"}

\* ToBoolean
Truthy(x) ==
    CASE x.t = "undefined" -> FALSE
      [] x.t = "null" -> FALSE
      [] x.t = "string" -> x.v # ""
      [] x.t = "number" -> x.v # 0
      [] OTHER -> TRUE

\* a || b
OrElse(a, b) == IF Truthy(a) THEN a ELSE b

\* Completion records: a normal value, or a thrown Error with its message.
Return(v) == [c |-> "return", v |-> v]
Throw(m) == [c |-> "throw", message |-> m]

\* x[key] for a value that is not nullish: a missing key reads undefined.
Prop(x, key) ==
    IF x.t = "object" /\ key \in DOMAIN x.v THEN x.v[key] ELSE Undef

\* The TypeError of reading a property of undefined or null.
ReadError(x, key) ==
    "Cannot read properties of " \o x.t \o " (reading '" \o key \o "')"

\* x?.key
OptGet(x, key) == IF Nullish(x) THEN Undef ELSE Prop(x, key)

(***************************************************************************)
(* Strings.                                                                *)
(***************************************************************************)
CharAt(s, i) == SubSeq(s, i, i)

StartsWith(s, prefix) ==
    Len(s) >= Len(prefix) /\ SubSeq(s, 1, Len(prefix)) = prefix

\* The position of the first occurrence of character c in s, 0 if none.
IndexOf(s, c) ==
    IF \E i \in 1..Len(s) : CharAt(s, i) = c
    THEN CHOOSE i \in 1..Len(s) :
            CharAt(s, i) = c /\ \A j \in 1..(i - 1) : CharAt(s, j) # c
    ELSE 0

LowerChar(c) ==
    CASE c = "S" -> "s" [] c = "O" -> "o" [] c = "C" -> "c" [] c = "K" -> "k"
      [] c = "H" -> "h" [] c = "T" -> "t" [] c = "P" -> "p" [] c = "F" -> "f"
      [] OTHER -> c

RECURSIVE ToLowerCase(_)
ToLowerCase(s) ==
    IF s = "" THEN "" ELSE LowerChar(CharAt(s, 1)) \o ToLowerCase(SubSeq(s, 2, Len(s)))

(***************************************************************************)
(* createProxyAgent                                                        *)
(***************************************************************************)
SchemeChars ==
    {"a", "c", "f", "h", "k", "o", "p", "s", "t", "x",
     "C", "F", "H", "K", "O", "P", "S", "T", "4", "5", "+", "-", "."}
SchemeStart == SchemeChars \ {"4", "5", "+", "-", "."}

\* new URL(input).protocol: the scheme up to and including the first ":",
\* lower-cased by the parser; an input with no scheme is an invalid URL.
UrlProtocol(input) ==
    LET colon == IndexOf(input, ":")
        scheme == SubSeq(input, 1, colon - 1)
    IN IF colon >= 2
          /\ CharAt(scheme, 1) \in SchemeStart
          /\ \A i \in 1..Len(scheme) : CharAt(scheme, i) \in SchemeChars
       THEN Return(ToLowerCase(scheme) \o ":")
       ELSE Throw("Invalid URL")

\* new SocksProxyAgent(url), new HttpsProxyAgent(url)
Agent(class, url) == [t |-> "agent", class |-> class, proxy |-> url]

\* A selector that falls back to a direct connection on an unsupported scheme.
createProxyAgent_DirectFallback(proxyUrl) ==
    IF ~Truthy(proxyUrl) THEN Return(Null)
    ELSE LET url == UrlProtocol(proxyUrl.v) IN
         IF url.c = "throw" THEN url
         ELSE LET protocol == ToLowerCase(url.v) IN
              IF StartsWith(protocol, "socks")
              THEN Return(Agent("SocksProxyAgent", proxyUrl.v))
              ELSE IF StartsWith(protocol, "http")
              THEN Return(Agent("HttpsProxyAgent", proxyUrl.v))
              ELSE Return(Null)

createProxyAgent(proxyUrl) ==
    IF ~Truthy(proxyUrl) THEN Return(Null)
    ELSE LET url == UrlProtocol(proxyUrl.v) IN
         IF url.c = "throw" THEN url
         ELSE LET protocol == ToLowerCase(url.v) IN
              IF StartsWith(protocol, "socks")
              THEN Return(Agent("SocksProxyAgent", proxyUrl.v))
              ELSE IF StartsWith(protocol, "http")
              THEN Return(Agent("HttpsProxyAgent", proxyUrl.v))
              ELSE Throw("Unsupported proxy protocol: " \o protocol)

(***************************************************************************)
(* Startup: the top-level statements of the module and main().             *)
(***************************************************************************)
ProxyUrls ==
    {Undef, Str("")} \cup
    {Str(s \o "://127.0.0.1:1080") :
        s \in {"socks", "socks4", "socks5", "socks5h", "socks4a", "SOCKS5",
               "http", "https", "HTTP", "httpx", "ftp", "sock", "tcp+socks5"}} \cup
    {Str("127.0.0.1")}

ApiVersions == {Undef, Str("3")}

JiraHost == "https://jira.example.com"
JiraToken == "secret"

NoConfig == [host |-> Undef, token |-> Undef, apiVersion |-> Undef]

\* index.js:36-43 and main(): the agent is built first; if that throws, the
\* module's evaluation ends there and the server never connects.
Boot ==
    /\ phase = "boot"
    /\ LET agent == createProxyAgent(env.PROXY_AGENT) IN
       IF agent.c = "throw"
       THEN /\ phase' = "crashed"
            /\ bootError' = agent.message
            /\ UNCHANGED <<proxyAgent, JIRA_CONFIG>>
       ELSE /\ phase' = "ready"
            /\ proxyAgent' = agent.v
            /\ JIRA_CONFIG' = [host |-> env.JIRA_HOST,
                               token |-> env.JIRA_API_TOKEN,
                               apiVersion |-> OrElse(env.JIRA_API_VERSION, Str("2"))]
            /\ UNCHANGED bootError
    /\ UNCHANGED <<env, inbox, calls, wire, outbox>>

Envs(proxies, versions) ==
    {[PROXY_AGENT |-> p, JIRA_HOST |-> Str(JiraHost), JIRA_API_TOKEN |-> Str(JiraToken),
      JIRA_API_VERSION |-> v] : p \in proxies, v \in versions}

InitWith(envs) ==
    /\ env \in envs
    /\ phase = "boot"
    /\ bootError = ""
    /\ proxyAgent = Undef
    /\ JIRA_CONFIG = NoConfig
    /\ inbox = <<>>
    /\ calls = <<>>
    /\ wire = <<>>
    /\ outbox = <<>>

(***************************************************************************)
(* The list-tools handler: the static tool descriptors.                    *)
(***************************************************************************)
\* A registry that lists a tool the handler does not route.
listTools_Drifted ==
    << [name |-> "get_jira_issue",
        description |-> "Get a specific Jira issue by key",
        properties |-> {"issueKey"},
        required |-> {"issueKey"}],
       [name |-> "get_jira_issues",
        description |-> "Get all issues and subtasks for a Jira project",
        properties |-> {"projectKey", "jql"},
        required |-> {"projectKey"}],
       [name |-> "delete_issue",
        description |-> "Delete a Jira issue by key",
        properties |-> {"issueKey"},
        required |-> {"issueKey"}] >>

listTools ==
    << [name |-> "get_jira_issue",
        description |-> "Get a specific Jira issue by key",
        properties |-> {"issueKey"},
        required |-> {"issueKey"}],
       [name |-> "get_jira_issues",
        description |-> "Get all issues and subtasks for a Jira project",
        properties |-> {"projectKey", "jql"},
        required |-> {"projectKey"}] >>

(***************************************************************************)
(* Template literals and encodeURIComponent.                               *)
(***************************************************************************)
\* `${x}` for the values a template literal of the handler can meet.
ToStr(x) ==
    CASE x.t = "string" -> x.v
      [] x.t = "number" -> ToString(x.v)
      [] OTHER -> x.t

HexDigits == "0123456789ABCDEF"
HexDigit(n) == CharAt(HexDigits, n + 1)

\* The characters encodeURIComponent leaves as they are.
Unreserved ==
    {CharAt("ABCDEFGHIJKLMNOPQRSTUVWXYZabcdefghijklmnopqrstuvwxyz0123456789-_.!~*'()", i) :
        i \in 1..71}

\* The code unit of an ASCII character that is not unreserved.
CharCode(c) ==
    CASE c = " " -> 32 [] c = "\"" -> 34 [] c = "#" -> 35 [] c = "$" -> 36
      [] c = "%" -> 37 [] c = "&" -> 38 [] c = "+" -> 43 [] c = "," -> 44
      [] c = "/" -> 47 [] c = ":" -> 58 [] c = ";" -> 59 [] c = "<" -> 60
      [] c = "=" -> 61 [] c = ">" -> 62 [] c = "?" -> 63 [] c = "@" -> 64

\* The escaping of encodeURI, which also leaves the URL's own delimiters alone.
EncodeChar_LikeEncodeURI(c) ==
    IF c \in Unreserved \cup {";", "/", "?", ":", "@", "&", "=", "+", "$", ",", "#"} THEN c
    ELSE "%" \o HexDigit(CharCode(c) \div 16) \o HexDigit(CharCode(c) % 16)

EncodeChar(c) ==
    IF c \in Unreserved THEN c
    ELSE "%" \o HexDigit(CharCode(c) \div 16) \o HexDigit(CharCode(c) % 16)

RECURSIVE encodeURIComponent(_)
encodeURIComponent(s) ==
    IF s = "" THEN ""
    ELSE EncodeChar(CharAt(s, 1)) \o encodeURIComponent(SubSeq(s, 2, Len(s)))

(***************************************************************************)
(* The call-tool handler up to its first await.                            *)
(***************************************************************************)
Headers ==
    [Authorization |-> "Bearer " \o ToStr(JIRA_CONFIG.token),
     ContentType |-> "application/json"]

\* const fetchOptions = {headers}; if (proxyAgent) fetchOptions.agent = proxyAgent
FetchOptions ==
    IF Truthy(proxyAgent)
    THEN [headers |-> Headers, agent |-> proxyAgent]
    ELSE [headers |-> Headers]

\* fetch(url, fetchOptions): a GET, since the options name no method.
Await(url) == [c |-> "await", request |-> [method |-> "GET", url |-> url, options |-> FetchOptions]]

DestructureError(key) ==
    "Cannot destructure property '" \o key \o "' of 'args' as it is undefined."

ApiRoot == ToStr(JIRA_CONFIG.host) \o "/rest/api/" \o ToStr(JIRA_CONFIG.apiVersion)

IssueUrl(issueKey) == ApiRoot \o "/issue/" \o ToStr(issueKey)

\* index.js:147-149
EffectiveJql(projectKey, customJql) ==
    IF Truthy(customJql)
    THEN "project = " \o ToStr(projectKey) \o " AND " \o ToStr(customJql)
    ELSE "project = " \o ToStr(projectKey)

SearchUrl(projectKey, customJql) ==
    ApiRoot \o "/search?jql=" \o encodeURIComponent(EffectiveJql(projectKey, customJql))

\* The try block from its start to the first await, or to the throw that ends it.
HandlerStart(name, args) ==
    IF name = "get_jira_issue"
    THEN IF Nullish(args) THEN Throw(DestructureError("issueKey"))
         ELSE Await(IssueUrl(Prop(args, "issueKey")))
    ELSE IF name = "get_jira_issues"
    THEN IF Nullish(args) THEN Throw(DestructureError("projectKey"))
         ELSE Await(SearchUrl(Prop(args, "projectKey"), Prop(args, "jql")))
    ELSE Throw("Unknown tool: " \o name)

\* The catch block: the error envelope.
Catch(message) ==
    [content |-> << [type |-> "text", text |-> "Error: " \o message] >>, isError |-> TRUE]

\* A check that lets redirects through as successes.
ResponseOk_Below400(status) == status >= 200 /\ status < 400

\* fetch() settled: a rejection, or a response whose ok is 200 <= status < 300.
ResponseOk(status) == status >= 200 /\ status < 300

HandlerAfterFetch(settled) ==
    IF settled.c = "reject" THEN Throw(settled.message)
    ELSE IF ~ResponseOk(settled.status)
    THEN Throw("HTTP " \o ToString(settled.status) \o ": " \o settled.statusText)
    ELSE [c |-> "await"]

(***************************************************************************)
(* Evaluation of the projections: property reads that may throw.           *)
(***************************************************************************)
\* x.k1.k2...: the first read of a property of undefined or null throws.
RECURSIVE GetPath(_, _)
GetPath(x, path) ==
    IF path = <<>> THEN Return(x)
    ELSE IF Nullish(x) THEN Throw(ReadError(x, Head(path)))
    ELSE GetPath(Prop(x, Head(path)), Tail(path))

\* The completions of a sequence of evaluations, in order: the first throw
\* ends the evaluation; otherwise the values.
FirstThrow(rs) ==
    rs[CHOOSE i \in 1..Len(rs) :
          rs[i].c = "throw" /\ \A j \in 1..(i - 1) : rs[j].c # "throw"]

Throws(rs) == \E i \in 1..Len(rs) : rs[i].c = "throw"

\* An object literal {k1: e1, k2: e2, ...}: keys and the completions of the
\* property expressions, evaluated in order.
Literal(keys, rs) ==
    IF Throws(rs) THEN FirstThrow(rs)
    ELSE Return(Lit([i \in 1..Len(keys) |-> <<keys[i], rs[i].v>>]))

\* A projection that forgets the default.
OrDefault_Forgotten(r, dflt) == r

\* r || dflt, for the completion r of the left operand.
OrDefault(r, dflt) == IF r.c = "throw" THEN r ELSE Return(OrElse(r.v, dflt))

\* The elements of an array, none for any other value.
Items(x) == IF x.t = "array" THEN x.v ELSE <<>>

\* x?.map(f), where `name` is the text of the callee and rs the completions
\* of f on the elements of x: undefined for a nullish x, the mapped array for
\* an array, and a TypeError for any other value, which has no map method.
OptMap(x, name, rs) ==
    IF Nullish(x) THEN Return(Undef)
    ELSE IF x.t # "array" THEN Throw(name \o " is not a function")
    ELSE IF Throws(rs) THEN FirstThrow(rs)
    ELSE Return(Arr([i \in 1..Len(rs) |-> rs[i].v]))

\* The completion `next` of what follows an expression whose completion is
\* r: a throw of r ends the evaluation.
Then(r, next) == IF r.c = "throw" THEN r ELSE next

\* issue.fields.<field>?.<key> || dflt
GuardedField(issue, field, key, dflt) ==
    LET r == GetPath(issue, <<"fields", field>>) IN
    OrDefault(Then(r, Return(OptGet(r.v, key))), dflt)

(***************************************************************************)
(* The get_jira_issue projection (index.js:115-139).                       *)
(***************************************************************************)
AttachmentProjection(a) ==
    Literal(<<"filename", "author", "created", "size", "mimeType", "content">>,
            << GetPath(a, <<"filename">>),
               GetPath(a, <<"author", "displayName">>),
               GetPath(a, <<"created">>),
               GetPath(a, <<"size">>),
               GetPath(a, <<"mimeType">>),
               GetPath(a, <<"content">>) >>)

\* issue.fields.attachment?.map(a => ({...})) || []
Attachments(issue) ==
    LET r == GetPath(issue, <<"fields", "attachment">>) IN
    OrDefault(Then(r, OptMap(r.v, "issue.fields.attachment?.map",
                             [i \in DOMAIN Items(r.v) |-> AttachmentProjection(Items(r.v)[i])])),
              Arr(<<>>))

CommentProjection(c) ==
    Literal(<<"author", "body", "created">>,
            << GetPath(c, <<"author", "displayName">>),
               GetPath(c, <<"body">>),
               GetPath(c, <<"created">>) >>)

\* issue.fields.comment?.comments?.map(c => ({...})) || []
Comments(issue) ==
    LET r == GetPath(issue, <<"fields", "comment">>)
        cs == OptGet(r.v, "comments")
    IN OrDefault(Then(r, OptMap(cs, "issue.fields.comment?.comments?.map",
                                [i \in DOMAIN Items(cs) |-> CommentProjection(Items(cs)[i])])),
                 Arr(<<>>))

IssueProjection(issue) ==
    Literal(
        <<"key", "summary", "description", "status", "assignee", "priority",
          "issueType", "created", "updated", "labels", "attachments", "comments">>,
        << GetPath(issue, <<"key">>),
           GetPath(issue, <<"fields", "summary">>),
           GetPath(issue, <<"fields", "description">>),
           GetPath(issue, <<"fields", "status", "name">>),
           GuardedField(issue, "assignee", "displayName", Str("Unassigned")),
           GetPath(issue, <<"fields", "priority", "name">>),
           GetPath(issue, <<"fields", "issuetype", "name">>),
           GetPath(issue, <<"fields", "created">>),
           GetPath(issue, <<"fields", "updated">>),
           GetPath(issue, <<"fields", "labels">>),
           Attachments(issue),
           Comments(issue) >>)

(***************************************************************************)
(* The get_jira_issues projection (index.js:176-200).                      *)
(***************************************************************************)
SubtaskProjection(st) ==
    Literal(<<"key", "summary", "status">>,
            << GetPath(st, <<"key">>),
               GetPath(st, <<"fields", "summary">>),
               GetPath(st, <<"fields", "status", "name">>) >>)

\* issue.fields.subtasks?.map(st => ({...})) || []
Subtasks(issue) ==
    LET r == GetPath(issue, <<"fields", "subtasks">>) IN
    OrDefault(Then(r, OptMap(r.v, "issue.fields.subtasks?.map",
                             [i \in DOMAIN Items(r.v) |-> SubtaskProjection(Items(r.v)[i])])),
              Arr(<<>>))

IssueSummaryProjection(issue) ==
    Literal(
        <<"key", "id", "summary", "description", "status", "assignee", "reporter",
          "priority", "issueType", "created", "updated", "duedate", "labels",
          "subtasks">>,
        << GetPath(issue, <<"key">>),
           GetPath(issue, <<"id">>),
           GetPath(issue, <<"fields", "summary">>),
           GetPath(issue, <<"fields", "description">>),
           GetPath(issue, <<"fields", "status", "name">>),
           GuardedField(issue, "assignee", "displayName", Str("Unassigned")),
           GuardedField(issue, "reporter", "displayName", Str("Unknown")),
           GuardedField(issue, "priority", "name", Str("None")),
           GetPath(issue, <<"fields", "issuetype", "name">>),
           GetPath(issue, <<"fields", "created">>),
           GetPath(issue, <<"fields", "updated">>),
           GetPath(issue, <<"fields", "duedate">>),
           GetPath(issue, <<"fields", "labels">>),
           Subtasks(issue) >>)

\* data.issues.map(issue => ({...})): a plain call, so a missing data.issues
\* throws.
IssuesMap(data) ==
    LET r == GetPath(data, <<"issues">>) IN
    Then(r, IF Nullish(r.v) THEN Throw(ReadError(r.v, "map"))
            ELSE OptMap(r.v, "data.issues.map",
                        [i \in DOMAIN Items(r.v) |-> IssueSummaryProjection(Items(r.v)[i])]))

SearchProjection(data) ==
    Literal(<<"total", "startAt", "maxResults", "issues">>,
            << GetPath(data, <<"total">>),
               GetPath(data, <<"startAt">>),
               GetPath(data, <<"maxResults">>),
               IssuesMap(data) >>)

(***************************************************************************)
(* JSON.stringify(value, null, space)                                      *)
(***************************************************************************)
RECURSIVE Spaces(_)
Spaces(n) == IF n <= 0 THEN "" ELSE " " \o Spaces(n - 1)

RECURSIVE JoinLines(_, _)
\* The items, each on its own line behind the indentation, comma-separated.
JoinLines(items, pad) ==
    IF items = <<>> THEN ""
    ELSE pad \o Head(items)
         \o (IF Len(items) > 1 THEN ",\n" ELSE "\n")
         \o JoinLines(Tail(items), pad)

\* A property whose value is undefined is left out of an object.
Kept(props) == SelectSeq(props, LAMBDA p : p[2].t # "undefined")

RECURSIVE Stringify(_, _, _)
\* The text of value at nesting depth `depth` with `space` spaces per level.
Stringify(value, space, depth) ==
    LET pad == Spaces(space * (depth + 1))
        close == Spaces(space * depth)
    IN CASE value.t = "string" -> "\"" \o value.v \o "\""
         [] value.t = "number" -> ToString(value.v)
         [] value.t \in {"null", "undefined"} -> "null"
         [] value.t = "array" ->
              IF value.v = <<>> THEN "[]"
              ELSE "[\n"
                   \o JoinLines([i \in 1..Len(value.v) |->
                                    Stringify(value.v[i], space, depth + 1)], pad)
                   \o close \o "]"
         [] value.t = "literal" ->
              LET props == Kept(value.v) IN
              IF props = <<>> THEN "{}"
              ELSE "{\n"
                   \o JoinLines([i \in 1..Len(props) |->
                                    "\"" \o props[i][1] \o "\": "
                                    \o Stringify(props[i][2], space, depth + 1)], pad)
                   \o close \o "}"

JSONstringify(value, space) == Stringify(value, space, 0)

(***************************************************************************)
(* The call-tool handler after response.json() settled.                    *)
(***************************************************************************)
Projection(name, body) ==
    IF name = "get_jira_issue" THEN IssueProjection(body) ELSE SearchProjection(body)

\* A success envelope indented by four spaces.
Success_FourSpaces(projection) ==
    [content |-> << [type |-> "text", text |-> JSONstringify(projection, 4)] >>]

\* The success envelope: no isError key.
Success(projection) ==
    [content |-> << [type |-> "text", text |-> JSONstringify(projection, 2)] >>]

HandlerAfterJson(name, settled) ==
    IF settled.c = "reject" THEN Throw(settled.message)
    ELSE LET p == Projection(name, settled.v) IN
         IF p.c = "throw" THEN p ELSE Return(Success(p.v))

(***************************************************************************)
(* The server: requests arrive in order, each starts the handler, and the  *)
(* handler's awaits settle whenever the remote answers.                    *)
(***************************************************************************)
None == [c |-> "none"]

\* A catch that handles HTTP failures only and rethrows everything else.
TryCatch_HttpOnly(r) ==
    IF r.c = "throw" /\ StartsWith(r.message, "HTTP ") THEN Return(Catch(r.message)) ELSE r

\* try { ... } catch (error) { return the error envelope }: the completion of
\* the handler for the completion r of its try block.
TryCatch(r) == IF r.c = "throw" THEN Return(Catch(r.message)) ELSE r

\* The invocation once its try block completed with r.
Settled(call, r) ==
    LET h == TryCatch(r) IN
    [call EXCEPT !.pc = IF h.c = "return" THEN "returned" ELSE "threw",
                 !.raised = IF r.c = "throw" THEN Str(r.message) ELSE None,
                 !.envelope = IF h.c = "return" THEN h.v ELSE None]

\* The handler's invocation for a request, before its try block has run.
NewCall(req) ==
    [name |-> req.name, args |-> req.args, pc |-> "start", fetches |-> 0,
     fetched |-> None, body |-> None, raised |-> None, envelope |-> None]

\* The response to request id is written on stdout once the handler returned.
Respond(id, call) ==
    IF call.pc = "returned"
    THEN Append(outbox, [id |-> id, envelope |-> call.envelope])
    ELSE outbox

\* The host writes a call-tool request on stdin; it numbers its requests.
Send(limit, name, args) ==
    /\ phase = "ready"
    /\ Cardinality(DOMAIN calls) + Len(inbox) < limit
    /\ inbox' = Append(inbox, [id |-> Cardinality(DOMAIN calls) + Len(inbox) + 1,
                               name |-> name, args |-> args])
    /\ UNCHANGED <<env, phase, bootError, proxyAgent, JIRA_CONFIG, calls, wire, outbox>>

\* A dispatcher that reads the newest unread request first.
Dispatch_Newest ==
    /\ inbox # <<>>
    /\ LET req == inbox[Len(inbox)]
           r == HandlerStart(req.name, req.args)
           call == IF r.c = "await"
                   THEN [NewCall(req) EXCEPT !.pc = "fetch", !.fetches = 1]
                   ELSE Settled(NewCall(req), r)
       IN /\ calls' = calls @@ (req.id :> call)
          /\ wire' = IF r.c = "await"
                     THEN Append(wire, [id |-> req.id, request |-> r.request])
                     ELSE wire
          /\ outbox' = Respond(req.id, call)
    /\ inbox' = SubSeq(inbox, 1, Len(inbox) - 1)
    /\ UNCHANGED <<env, phase, bootError, proxyAgent, JIRA_CONFIG>>

\* The oldest unread request is read and the handler runs to its first await
\* (fetch has been called) or to its end.
Dispatch ==
    /\ inbox # <<>>
    /\ LET req == Head(inbox)
           r == HandlerStart(req.name, req.args)
           call == IF r.c = "await"
                   THEN [NewCall(req) EXCEPT !.pc = "fetch", !.fetches = 1]
                   ELSE Settled(NewCall(req), r)
       IN /\ calls' = calls @@ (req.id :> call)
          /\ wire' = IF r.c = "await"
                     THEN Append(wire, [id |-> req.id, request |-> r.request])
                     ELSE wire
          /\ outbox' = Respond(req.id, call)
    /\ inbox' = Tail(inbox)
    /\ UNCHANGED <<env, phase, bootError, proxyAgent, JIRA_CONFIG>>

\* The invocation `call` of request id resumes with the completion r of the
\* code after an await.
Resume(id, call, r) ==
    LET after == IF r.c = "await" THEN [call EXCEPT !.pc = "json"] ELSE Settled(call, r) IN
    /\ calls' = [calls EXCEPT ![id] = after]
    /\ outbox' = Respond(id, after)

\* A handler that calls fetch again when the request fails at the network level.
FetchSettle_Retry(id, settled) ==
    /\ id \in DOMAIN calls
    /\ calls[id].pc = "fetch"
    /\ IF settled.c = "reject" /\ calls[id].fetches < 2
       THEN /\ calls' = [calls EXCEPT ![id].fetches = @ + 1]
            /\ wire' = Append(wire, CHOOSE w \in {wire[i] : i \in 1..Len(wire)} : w.id = id)
            /\ UNCHANGED outbox
       ELSE /\ Resume(id, [calls[id] EXCEPT !.fetched = settled], HandlerAfterFetch(settled))
            /\ UNCHANGED wire
    /\ UNCHANGED <<env, phase, bootError, proxyAgent, JIRA_CONFIG, inbox>>

\* await fetch(url, fetchOptions) settles.
FetchSettle(id, settled) ==
    /\ id \in DOMAIN calls
    /\ calls[id].pc = "fetch"
    /\ Resume(id, [calls[id] EXCEPT !.fetched = settled], HandlerAfterFetch(settled))
    /\ UNCHANGED <<env, phase, bootError, proxyAgent, JIRA_CONFIG, inbox, wire>>

\* await response.json() settles.
JsonSettle(id, settled) ==
    /\ id \in DOMAIN calls
    /\ calls[id].pc = "json"
    /\ Resume(id, [calls[id] EXCEPT !.body = settled],
              HandlerAfterJson(calls[id].name, settled))
    /\ UNCHANGED <<env, phase, bootError, proxyAgent, JIRA_CONFIG, inbox, wire>>

(***************************************************************************)
(* What the host sends and what the tracker answers.                       *)
(***************************************************************************)
NoKeys == [k \in {} |-> Undef]
\* key: v, or nothing when the remote leaves the field out.
Field(key, v) == IF v = None THEN NoKeys ELSE (key :> v)

Invocations ==
    { [name |-> "get_jira_issue", args |-> Obj("issueKey" :> Str("PROJ-1"))],
      [name |-> "get_jira_issue", args |-> Undef],
      [name |-> "get_jira_issues", args |-> Obj("projectKey" :> Str("PP"))],
      [name |-> "get_jira_issues",
       args |-> Obj(("projectKey" :> Str("PP")) @@ ("jql" :> Str("status = Open")))],
      [name |-> "delete_issue", args |-> Obj("issueKey" :> Str("PROJ-1"))] }

Reject(message) == [c |-> "reject", message |-> message]
Response(status, statusText) ==
    [c |-> "response", status |-> status, statusText |-> statusText]

FetchOutcomes ==
    { Reject("request failed, reason: connect ECONNREFUSED"),
      Response(200, "OK"),
      Response(299, ""),
      Response(300, "Multiple Choices"),
      Response(404, "Not Found") }

Named(n) == Obj("name" :> Str(n))
Person(n) == Obj("displayName" :> Str(n))

\* The fields every issue of the tracker carries.
BaseFields ==
    ("summary" :> Str("S")) @@ ("description" :> Null) @@ ("status" :> Named("Open"))
    @@ ("issuetype" :> Named("Bug")) @@ ("created" :> Str("2024-01-01"))
    @@ ("updated" :> Str("2024-01-02"))

Issue(key, optional) ==
    Obj(("key" :> Str(key)) @@ ("id" :> Str("10001")) @@ ("fields" :> Obj(BaseFields @@ optional)))

Attachment ==
    Obj(("filename" :> Str("a.png")) @@ ("author" :> Person("Bob")) @@ ("created" :> Str("2024-01-03"))
        @@ ("size" :> Num(12)) @@ ("mimeType" :> Str("image/png")) @@ ("content" :> Str("https://jira.example.com/a.png")))

Comment == Obj(("author" :> Person("Eve")) @@ ("body" :> Str("hi")) @@ ("created" :> Str("2024-01-04")))

Subtask ==
    Obj(("key" :> Str("PP-2")) @@ ("fields" :> Obj(("summary" :> Str("T")) @@ ("status" :> Named("Done")))))

Labels == Arr(<<Str("a"), Str("b")>>)

\* An issue with every optional field, and the issue of the spec's example.
FullIssue ==
    Issue("PROJ-1",
          ("assignee" :> Person("Alice")) @@ ("reporter" :> Person("Carol"))
          @@ ("priority" :> Named("High")) @@ ("labels" :> Labels) @@ ("duedate" :> Null)
          @@ ("attachment" :> Arr(<<Attachment>>))
          @@ ("comment" :> Obj("comments" :> Arr(<<Comment>>)))
          @@ ("subtasks" :> Arr(<<Subtask>>)))

BareIssue ==
    Issue("PROJ-1", ("assignee" :> Null) @@ ("priority" :> Named("High")) @@ ("labels" :> Labels))

Search(issues) ==
    Obj(("total" :> Num(Len(issues))) @@ ("startAt" :> Num(0)) @@ ("maxResults" :> Num(50))
        @@ ("issues" :> Arr(issues)))

InvalidJson == Reject("invalid json response body, reason: Unexpected token < in JSON at position 0")

\* What response.json() may settle with.
JsonOutcomes ==
    { InvalidJson,
      Return(BareIssue),
      Return(Obj("errorMessages" :> Arr(<<>>))),
      Return(Search(<<BareIssue, FullIssue>>)) }

ServerProxies == {Undef, Str("ftp://127.0.0.1:21")}

Init == InitWith(Envs(ServerProxies, {Undef}))

Next ==
    \/ Boot
    \/ \E i \in Invocations : Send(MaxCalls, i.name, i.args)
    \/ Dispatch
    \/ \E id \in 1..MaxCalls, settled \in FetchOutcomes : FetchSettle(id, settled)
    \/ \E id \in 1..MaxCalls, settled \in JsonOutcomes : JsonSettle(id, settled)

Spec == Init /\ [][Next]_vars

(***************************************************************************)
(* Startup under every proxy setting, followed by one invocation.          *)
(***************************************************************************)
InitBoot == InitWith(Envs(ProxyUrls, ApiVersions))

BootInvocations ==
    { [name |-> "get_jira_issue", args |-> Obj("issueKey" :> Str("PROJ-1"))],
      [name |-> "get_jira_issues", args |-> Obj("projectKey" :> Str("PP"))] }

NextBoot ==
    \/ Boot
    \/ \E i \in BootInvocations : Send(1, i.name, i.args)
    \/ Dispatch
    \/ \E settled \in {Response(200, "OK"), Response(404, "Not Found")} : FetchSettle(1, settled)
    \/ \E settled \in {Return(BareIssue), Return(Search(<<BareIssue>>))} : JsonSettle(1, settled)

SpecBoot == InitBoot /\ [][NextBoot]_vars

(***************************************************************************)
(* One invocation answered 200 with every combination of the optional      *)
(* fields of an issue.                                                     *)
(***************************************************************************)
OptionalFields ==
    { Field("assignee", a) @@ Field("reporter", r) @@ Field("priority", p)
      @@ Field("labels", l) @@ Field("attachment", at) @@ Field("comment", c)
      @@ Field("subtasks", st) :
        a \in {None, Null, Person("Alice")},
        r \in {None, Person("Carol")},
        p \in {None, Null, Named("High")},
        l \in {None, Labels},
        at \in {None, Arr(<<Attachment>>)},
        c \in {None, Obj(NoKeys), Obj("comments" :> Arr(<<Comment>>))},
        st \in {None, Arr(<<Subtask>>)} }

IssueBodies == {Issue("PROJ-1", o) : o \in OptionalFields}

SearchBodies == {Search(<<i>>) : i \in IssueBodies} \cup {Search(<<>>)}

InitProjection == InitWith(Envs({Undef}, {Undef}))

NextProjection ==
    \/ Boot
    \/ \E i \in BootInvocations : Send(1, i.name, i.args)
    \/ Dispatch
    \/ FetchSettle(1, Response(200, "OK"))
    \/ \E body \in IssueBodies \cup SearchBodies : JsonSettle(1, Return(body))

SpecProjection == InitProjection /\ [][NextProjection]_vars

(***************************************************************************)
(* One get_jira_issues invocation with every project key and query         *)
(* fragment over a small alphabet.                                         *)
(***************************************************************************)
Alphabet == {"P", " ", "&", "%"}

RECURSIVE StringsUpTo(_)
StringsUpTo(n) ==
    IF n = 0 THEN {""}
    ELSE LET shorter == StringsUpTo(n - 1) IN
         shorter \cup {s \o c : s \in shorter, c \in Alphabet}

SearchArgs ==
    {Obj("projectKey" :> Str(pk)) : pk \in StringsUpTo(MaxLen)} \cup
    {Obj(("projectKey" :> Str(pk)) @@ ("jql" :> Str(q))) :
        pk \in StringsUpTo(MaxLen), q \in StringsUpTo(MaxLen)}

InitUrl == InitWith(Envs({Undef}, ApiVersions))

NextUrl ==
    \/ Boot
    \/ \E args \in SearchArgs : Send(1, "get_jira_issues", args)
    \/ Dispatch
    \/ FetchSettle(1, Response(404, "Not Found"))

SpecUrl == InitUrl /\ [][NextUrl]_vars

(***************************************************************************)
(* Properties.                                                             *)
(***************************************************************************)
ErrorEnvelope(message) ==
    [content |-> << [type |-> "text", text |-> "Error: " \o message] >>, isError |-> TRUE]

Delivered(id) ==
    \E i \in 1..Len(outbox) : outbox[i] = [id |-> id, envelope |-> calls[id].envelope]

MissingFieldsBody == Return(Obj("errorMessages" :> Arr(<<>>)))

\* C1: the call-tool handler never throws to the host; every failure raised
\* while handling an invocation (unknown tool, missing argument bag, network
\* failure, non-2xx status, unparsable body, a body lacking a field the
\* projection reads unguarded) is caught and returned as the envelope whose
\* single text item is "Error: <failure message>" with isError true.
C1_FailuresBecomeErrorEnvelopes ==
    \A id \in DOMAIN calls :
        LET call == calls[id] IN
        /\ call.pc # "threw"
        /\ call.raised # None =>
              /\ call.pc = "returned"
              /\ call.envelope = ErrorEnvelope(call.raised.v)
              /\ Delivered(id)
        /\ call.fetched.c = "reject" => call.raised = Str(call.fetched.message)
        /\ call.body.c = "reject" => call.raised = Str(call.body.message)
        /\ (call.body = MissingFieldsBody /\ call.name = "get_jira_issue") =>
              call.raised = Str("Cannot read properties of undefined (reading 'summary')")
        /\ (call.body = MissingFieldsBody /\ call.name = "get_jira_issues") =>
              call.raised = Str("Cannot read properties of undefined (reading 'map')")
        /\ (call.pc # "start" /\ Nullish(call.args) /\ call.name = "get_jira_issue") =>
              call.raised = Str("Cannot destructure property 'issueKey' of 'args' as it is undefined.")

\* A body without `fields` was projected, and the TypeError came back as an
\* error envelope.
C1_Witness ==
    \E id \in DOMAIN calls :
        /\ calls[id].name = "get_jira_issue"
        /\ calls[id].body = MissingFieldsBody
        /\ calls[id].pc = "returned"
        /\ Delivered(id)

\* Whether the invocation failed, read off what it was sent and what the
\* tracker answered.
Failed(call) ==
    \/ call.name \notin {"get_jira_issue", "get_jira_issues"}
    \/ Nullish(call.args)
    \/ call.fetched.c = "reject"
    \/ call.fetched.c = "response" /\ (call.fetched.status < 200 \/ call.fetched.status > 299)
    \/ call.body.c = "reject"
    \/ call.body.c = "return" /\ Projection(call.name, call.body.v).c = "throw"

\* C2: every envelope has the shape {content: [one {type: "text", text:
\* string}], isError?: true}; isError is present, and true, exactly when the
\* invocation failed; on success the text is the projection serialized as
\* JSON indented by two spaces.
C2_EnvelopeShape ==
    \A i \in 1..Len(outbox) :
        LET e == outbox[i].envelope
            call == calls[outbox[i].id]
            text == e.content[1].text
        IN /\ "content" \in DOMAIN e
           /\ DOMAIN e \subseteq {"content", "isError"}
           /\ Len(e.content) = 1
           /\ DOMAIN e.content[1] = {"type", "text"}
           /\ e.content[1].type = "text"
           /\ text \in STRING
           /\ ("isError" \in DOMAIN e) <=> Failed(call)
           /\ "isError" \in DOMAIN e => e.isError = TRUE
           /\ ~Failed(call) =>
                 /\ text = JSONstringify(Projection(call.name, call.body.v).v, 2)
                 /\ SubSeq(text, 1, 5) = "{\n  \""
                 /\ SubSeq(text, Len(text) - 1, Len(text)) = "\n}"

\* A success envelope and an error envelope have both been returned.
C2_Witness ==
    \E i, j \in 1..Len(outbox) :
        /\ "isError" \in DOMAIN outbox[i].envelope
        /\ "isError" \notin DOMAIN outbox[j].envelope

ListedNames == {listTools[i].name : i \in 1..Len(listTools)}

\* Names to try the dispatcher on: the listed ones and some that are not.
ProbeNames == ListedNames \cup {"delete_issue", "GET_JIRA_ISSUE", "get_jira_issue ", ""}

\* C3: the names listTools returns are exactly the names the dispatcher
\* routes to a fetcher; calling a name that is not listed yields the error
\* envelope "Error: Unknown tool: <name>" with isError true, and the server
\* goes on serving.
C3_RegistryMatchesDispatcher ==
    /\ phase = "ready" =>
          \A n \in ProbeNames :
              n \in ListedNames <=> HandlerStart(n, Obj(NoKeys)).c = "await"
    /\ \A id \in DOMAIN calls :
          LET call == calls[id] IN
          /\ phase = "ready"
          /\ call.name \in ListedNames =>
                /\ call.raised # Str("Unknown tool: " \o call.name)
                /\ ~Nullish(call.args) => call.fetches = 1
          /\ call.name \notin ListedNames =>
                /\ call.pc = "returned"
                /\ call.fetches = 0
                /\ call.envelope = ErrorEnvelope("Unknown tool: " \o call.name)
                /\ Delivered(id)

\* An unknown tool was called first, and the next invocation was still
\* served to its end.
C3_Witness ==
    /\ 1 \in DOMAIN calls /\ 2 \in DOMAIN calls
    /\ calls[1].name = "delete_issue" /\ calls[1].pc = "returned"
    /\ calls[2].name = "get_jira_issues" /\ calls[2].pc = "returned"
    /\ calls[2].raised = None

\* C5: for both tools, a response whose status is outside 200-299 is neither
\* parsed nor projected, and the envelope text is
\* "Error: HTTP <status>: <statusText>" with isError true.
C5_NonSuccessStatus ==
    \A id \in DOMAIN calls :
        LET call == calls[id]
            f == call.fetched
        IN /\ (f.c = "response" /\ (f.status < 200 \/ f.status > 299)) =>
                 /\ call.pc = "returned"
                 /\ call.body = None
                 /\ call.envelope =
                       [content |-> << [type |-> "text",
                                        text |-> "Error: HTTP " \o ToString(f.status)
                                                 \o ": " \o f.statusText] >>,
                        isError |-> TRUE]
                 /\ Delivered(id)
           /\ f = Response(404, "Not Found") =>
                 call.envelope.content[1].text = "Error: HTTP 404: Not Found"
           /\ (f.c = "response" /\ f.status >= 200 /\ f.status <= 299) =>
                 /\ call.pc \in {"json", "returned"}
                 /\ call.pc = "returned" => call.body # None

\* Both tools have met a 404.
C5_Witness ==
    \E a, b \in DOMAIN calls :
        /\ calls[a].name = "get_jira_issue" /\ calls[b].name = "get_jira_issues"
        /\ calls[a].fetched = Response(404, "Not Found")
        /\ calls[b].fetched = Response(404, "Not Found")
        /\ calls[a].pc = "returned" /\ calls[b].pc = "returned"

\* C9, as stated: invocations are handled in the order the host sends them,
\* so for A sent before B, A's envelope is produced before B's, even when
\* A's remote call takes longer than B's. Taken on the invocations that call
\* the tracker, the case the claim singles out.
C9_EnvelopesInSendOrder ==
    \A j \in 1..Len(outbox) :
        \A a \in 1..(outbox[j].id - 1) :
            (calls[a].fetches = 1 /\ calls[outbox[j].id].fetches = 1) =>
                \E i \in 1..(j - 1) : outbox[i].id = a

\* C9, amended: the handler is started on the requests in the order the host
\* sends them and the remote calls are issued in that order; each invocation
\* yields one envelope, produced once its own remote call has settled and
\* not held back for an earlier invocation.
C9_StartedInSendOrder ==
    /\ DOMAIN calls = 1..Cardinality(DOMAIN calls)
    /\ \A k \in 1..Len(inbox) : inbox[k].id = Cardinality(DOMAIN calls) + k
    /\ \A i, j \in 1..Len(wire) : i < j => wire[i].id < wire[j].id
    /\ \A i, j \in 1..Len(outbox) : i # j => outbox[i].id # outbox[j].id
    /\ \A i \in 1..Len(outbox) :
          /\ outbox[i].id \in DOMAIN calls
          /\ calls[outbox[i].id].pc = "returned"
          /\ calls[outbox[i].id].envelope = outbox[i].envelope
          /\ calls[outbox[i].id].fetches = 1 => calls[outbox[i].id].fetched # None
    /\ \A id \in DOMAIN calls : calls[id].pc = "returned" => Delivered(id)

\* Both invocations reached the tracker, and the second one's envelope came
\* out first.
C9_Witness ==
    /\ Len(outbox) = 2
    /\ outbox[1].id = 2 /\ outbox[2].id = 1
    /\ calls[1].fetches = 1 /\ calls[2].fetches = 1

Requests(id) == {i \in 1..Len(wire) : wire[i].id = id}

SchemeOf(input) == SubSeq(input, 1, IndexOf(input, ":") - 1)

HasScheme(p) == Truthy(p) /\ SchemeOf(p.v) # ""

Started == phase # "boot"

\* The process is up and every request goes through a transport of `class`.
ReadyWith(class, p) ==
    /\ phase = "ready"
    /\ proxyAgent = [t |-> "agent", class |-> class, proxy |-> p.v]
    /\ \A i \in 1..Len(wire) : wire[i].request.options.agent = proxyAgent

\* Startup failed with `message`, and the process serves nothing.
CrashedWith(message) ==
    /\ phase = "crashed"
    /\ bootError = message
    /\ inbox = <<>> /\ calls = <<>> /\ wire = <<>> /\ outbox = <<>>

\* C8, as stated: no transport for an empty or unset proxy URL; a SOCKS
\* transport for the schemes socks, socks4, socks5, socks5h and an HTTP
\* transport for http, https, compared case-insensitively; for any other
\* scheme startup fails with an error naming the scheme.
C8_OnlySixSchemes ==
    Started =>
        LET p == env.PROXY_AGENT
            scheme == ToLowerCase(SchemeOf(p.v))
        IN /\ ~Truthy(p) => phase = "ready" /\ proxyAgent = Null
           /\ HasScheme(p) =>
                 IF scheme \in {"socks", "socks4", "socks5", "socks5h"}
                 THEN ReadyWith("SocksProxyAgent", p)
                 ELSE IF scheme \in {"http", "https"}
                 THEN ReadyWith("HttpsProxyAgent", p)
                 ELSE CrashedWith("Unsupported proxy protocol: " \o scheme \o ":")

\* C8, amended: no transport for an empty or unset proxy URL; a SOCKS
\* transport for every scheme that begins with "socks" (socks, socks4,
\* socks5, socks5h among them) and an HTTP transport for every other scheme
\* that begins with "http" (http, https among them), compared
\* case-insensitively; for a scheme that begins with neither, startup fails
\* with an error naming the scheme, the process never becomes ready and no
\* request is ever sent directly.
C8_SchemePrefixes ==
    Started =>
        LET p == env.PROXY_AGENT
            scheme == ToLowerCase(SchemeOf(p.v))
        IN /\ ~Truthy(p) =>
                 /\ phase = "ready" /\ proxyAgent = Null
                 /\ \A i \in 1..Len(wire) : "agent" \notin DOMAIN wire[i].request.options
           /\ HasScheme(p) =>
                 IF StartsWith(scheme, "socks")
                 THEN ReadyWith("SocksProxyAgent", p)
                 ELSE IF StartsWith(scheme, "http")
                 THEN ReadyWith("HttpsProxyAgent", p)
                 ELSE CrashedWith("Unsupported proxy protocol: " \o scheme \o ":")
           /\ (HasScheme(p) /\ scheme \in {"socks", "socks4", "socks5", "socks5h"}) =>
                 ReadyWith("SocksProxyAgent", p)
           /\ (HasScheme(p) /\ scheme \in {"http", "https"}) =>
                 ReadyWith("HttpsProxyAgent", p)
           /\ (Truthy(p) /\ ~HasScheme(p)) => CrashedWith("Invalid URL")

\* Startup was refused for an ftp proxy.
C8_Witness ==
    /\ env.PROXY_AGENT = Str("ftp://127.0.0.1:1080")
    /\ phase = "crashed"
    /\ bootError = "Unsupported proxy protocol: ftp:"

\* Whether `part` occurs in `text`.
Contains(text, part) ==
    \E i \in 1..(Len(text) - Len(part) + 1) : SubSeq(text, i, i + Len(part) - 1) = part

\* The line that opens property `key` of an object nested `depth` levels deep
\* in a text indented by two spaces.
KeyLine(key, depth) == "\n" \o Spaces(2 * depth) \o "\"" \o key \o "\": "

Succeeded(call) == call.pc = "returned" /\ ~Failed(call)

SentText(call) == call.envelope.content[1].text

\* The fields of the issue a get_jira_issue response carries, and of the
\* only issue of a get_jira_issues response.
FieldsOf(call) ==
    IF call.name = "get_jira_issue"
    THEN Prop(call.body.v, "fields")
    ELSE Prop(Prop(call.body.v, "issues").v[1], "fields")

IssueCount(call) ==
    IF call.name = "get_jira_issue" THEN 1 ELSE Len(Prop(call.body.v, "issues").v)

\* The nesting depth of an issue's properties in the returned text.
IssueDepth(call) == IF call.name = "get_jira_issue" THEN 1 ELSE 3

OptionalKeys(call) ==
    IF call.name = "get_jira_issue"
    THEN {"assignee", "priority", "labels", "attachments", "comments"}
    ELSE {"assignee", "reporter", "priority", "labels", "subtasks"}

\* C4: in every successful get_jira_issue and get_jira_issues result, each
\* of the optional fields (assignee, reporter, priority, labels, attachments,
\* comments, subtasks) is present in the projection with an explicit value,
\* whichever of them the remote response leaves out or sets to null.
C4_StructurallyComplete ==
    \A id \in DOMAIN calls :
        LET call == calls[id] IN
        (Succeeded(call) /\ IssueCount(call) = 1) =>
            \A k \in OptionalKeys(call) :
                Contains(SentText(call), KeyLine(k, IssueDepth(call)))

Absent(fields, key) == Prop(fields, key) = Undef

BareIssueText ==
    "{\n  \"key\": \"PROJ-1\",\n  \"summary\": \"S\",\n  \"description\": null,\n"
    \o "  \"status\": \"Open\",\n  \"assignee\": \"Unassigned\",\n  \"priority\": \"High\",\n"
    \o "  \"issueType\": \"Bug\",\n  \"created\": \"2024-01-01\",\n  \"updated\": \"2024-01-02\",\n"
    \o "  \"labels\": [\n    \"a\",\n    \"b\"\n  ],\n  \"attachments\": [],\n  \"comments\": []\n}"

\* C7: the optional fields the fetchers guard come out as their sentinels:
\* get_jira_issue with a null assignee and no attachment or comment field
\* yields assignee "Unassigned", attachments [] and comments [] with the
\* labels passed through; a get_jira_issues result issue with no assignee,
\* reporter or subtasks field yields "Unassigned", "Unknown" and subtasks [],
\* present and empty.
C7_GuardedFieldsGetSentinels ==
    \A id \in DOMAIN calls :
        LET call == calls[id]
            text == SentText(call)
            f == FieldsOf(call)
        IN /\ (Succeeded(call) /\ call.name = "get_jira_issue") =>
                 /\ Nullish(Prop(f, "assignee")) =>
                       Contains(text, "\n  \"assignee\": \"Unassigned\",\n")
                 /\ Absent(f, "attachment") => Contains(text, "\n  \"attachments\": [],\n")
                 /\ Absent(f, "comment") => Contains(text, "\n  \"comments\": []\n}")
                 /\ Prop(f, "labels") = Labels =>
                       Contains(text, "\n  \"labels\": [\n    \"a\",\n    \"b\"\n  ],\n")
                 /\ call.body.v = BareIssue => text = BareIssueText
           /\ (Succeeded(call) /\ call.name = "get_jira_issues" /\ IssueCount(call) = 1) =>
                 /\ Absent(f, "assignee") =>
                       Contains(text, "\n      \"assignee\": \"Unassigned\",\n")
                 /\ Absent(f, "reporter") =>
                       Contains(text, "\n      \"reporter\": \"Unknown\",\n")
                 /\ Absent(f, "subtasks") =>
                       Contains(text, "\n      \"subtasks\": []\n    }\n")

\* The example issue (assignee null, labels a and b, no attachment or
\* comment field) was fetched and projected.
C7_Witness ==
    \E id \in DOMAIN calls :
        /\ Succeeded(calls[id])
        /\ calls[id].name = "get_jira_issue"
        /\ calls[id].body.v = BareIssue
        /\ SentText(calls[id]) = BareIssueText

\* The ASCII characters of codes 32 to 95.
Ascii == " !\"#$%&'()*+,-./0123456789:;<=>?@ABCDEFGHIJKLMNOPQRSTUVWXYZ[\\]^_"

CharOfCode(n) == CharAt(Ascii, n - 31)

HexValue(c) == CHOOSE n \in 0..15 : CharAt("0123456789ABCDEF", n + 1) = c

IsHex(c) == \E n \in 0..15 : CharAt("0123456789ABCDEF", n + 1) = c

RECURSIVE PercentDecode(_)
\* What the tracker reads out of a percent-encoded parameter; a stray "%"
\* does not decode.
PercentDecode(s) ==
    IF s = "" THEN ""
    ELSE IF CharAt(s, 1) # "%" THEN CharAt(s, 1) \o PercentDecode(SubSeq(s, 2, Len(s)))
    ELSE IF Len(s) >= 3 /\ IsHex(CharAt(s, 2)) /\ IsHex(CharAt(s, 3))
    THEN CharOfCode(16 * HexValue(CharAt(s, 2)) + HexValue(CharAt(s, 3)))
         \o PercentDecode(SubSeq(s, 4, Len(s)))
    ELSE "<URIError>"

\* The value of the first query parameter of a URL: from the "=" after the
\* "?" to the next "&" or "#", or to the end.
FirstParam(url) ==
    LET rest == SubSeq(url, IndexOf(url, "?") + 1, Len(url))
        value == SubSeq(rest, IndexOf(rest, "=") + 1, Len(rest))
        stops == {i \in 1..Len(value) : CharAt(value, i) \in {"&", "#"}}
        end == IF stops = {} THEN Len(value)
               ELSE (CHOOSE i \in stops : \A j \in stops : i <= j) - 1
    IN SubSeq(value, 1, end)

FirstParamName(url) ==
    LET rest == SubSeq(url, IndexOf(url, "?") + 1, Len(url))
    IN SubSeq(rest, 1, IndexOf(rest, "=") - 1)

\* The URL up to its "?".
UrlPath(url) == SubSeq(url, 1, IndexOf(url, "?") - 1)

PercentEncoded(s) == \A i \in 1..Len(s) : CharAt(s, i) \in Unreserved \cup {"%"}

\* The search request of invocation id asks for `query`, wholly
\* percent-encoded, at {baseUrl}/rest/api/{apiVersion}/search.
AsksFor(id, query) ==
    \A i \in Requests(id) :
        LET url == wire[i].request.url IN
        /\ UrlPath(url) = JiraHost \o "/rest/api/" \o JIRA_CONFIG.apiVersion.v \o "/search"
        /\ FirstParamName(url) = "jql"
        /\ PercentEncoded(FirstParam(url))
        /\ url = UrlPath(url) \o "?jql=" \o FirstParam(url)
        /\ PercentDecode(FirstParam(url)) = query

\* C6, as stated: the jql parameter of the requested search URL is the
\* percent-encoding of the whole query and decodes to
\* "project = {projectKey} AND {jql}" when jql is given and to
\* "project = {projectKey}" when it is not.
C6_DecodesToQuery ==
    \A id \in DOMAIN calls :
        LET args == calls[id].args.v IN
        calls[id].name = "get_jira_issues" =>
            IF "jql" \in DOMAIN args
            THEN AsksFor(id, "project = " \o args.projectKey.v \o " AND " \o args.jql.v)
            ELSE AsksFor(id, "project = " \o args.projectKey.v)

\* C6, amended: the jql parameter of the requested search URL is the
\* percent-encoding of the whole query and decodes to
\* "project = {projectKey} AND {jql}" when jql is given and not empty, and to
\* "project = {projectKey}" when jql is not given or is the empty string.
C6_DecodesToQueryUnlessEmpty ==
    \A id \in DOMAIN calls :
        LET args == calls[id].args.v IN
        calls[id].name = "get_jira_issues" =>
            /\ Cardinality(Requests(id)) = 1
            /\ IF "jql" \in DOMAIN args /\ args.jql.v # ""
               THEN AsksFor(id, "project = " \o args.projectKey.v \o " AND " \o args.jql.v)
               ELSE AsksFor(id, "project = " \o args.projectKey.v)

\* A query fragment made of the characters "%" and "&" was sent, escaped.
C6_Witness ==
    \E id \in DOMAIN calls :
        /\ calls[id].args = Obj(("projectKey" :> Str("P")) @@ ("jql" :> Str("%&")))
        /\ \E i \in Requests(id) :
              wire[i].request.url =
                  JiraHost \o "/rest/api/2/search?jql=project%20%3D%20P%20AND%20%25%26"
====
